---- MODULE Spec2Model ----
(***************************************************************************)
(* NanoDrop analyzer: the computation core of utils.py, app.py,            *)
(* single_sample.py and dataframe_processor.py as a state machine.          *)
(*                                                                         *)
(* Every function of the core is pure.  A state is one call: `op` names    *)
(* the function, `args` holds its arguments, `pc` tells whether the call   *)
(* is still to be made ("ready") or has been made ("done"), and `res` is   *)
(* what it returned or raised.  Init draws the call; one action per        *)
(* function applies it.                                                    *)
(*                                                                         *)
(* Python values are records [k, n, d, s]:                                 *)
(*   k = "none"  None                                                      *)
(*   k = "nan"   the float NaN (np.nan)                                    *)
(*   k = "num"   a finite float, modelled as the exact rational n/d in     *)
(*               lowest terms with d > 0                                   *)
(*   k = "str"   a str, s being its sequence of one-character strings      *)
(* Texts the code only builds and never inspects (notes, verdicts,         *)
(* recommendations, dict keys) are TLA+ strings; the Arabic ones are       *)
(* rendered by an ASCII name given beside the line that holds them.        *)
(***************************************************************************)
EXTENDS Integers, Sequences, FiniteSets, TLC

VARIABLES op, args, pc, res

vars == <<op, args, pc, res>>

(***************************************************************************)
(* Bounds of the input grids.                                              *)
(***************************************************************************)
MaxRatioTenths == 20
MaxAbsTenths == 10
MaxConc == 8
MaxTargetHalves == 4
MaxFinalQuarters == 6
MaxRows == 2

MaxHeaders == 3

MaxTokenLen == 3

(***************************************************************************)
(* Python values and float arithmetic.                                     *)
(***************************************************************************)
AbsInt(i) == IF i < 0 THEN -i ELSE i

RECURSIVE GCD(_, _)
GCD(a, b) == IF b = 0 THEN a ELSE GCD(b, a % b)

None == [k |-> "none", n |-> 0, d |-> 1, s |-> <<>>]

NaN == [k |-> "nan", n |-> 0, d |-> 1, s |-> <<>>]

Str(chars) == [k |-> "str", n |-> 0, d |-> 1, s |-> chars]

\* The float n/d (d # 0), in lowest terms with a positive denominator.
Num(n, d) ==
    LET g == GCD(AbsInt(n), AbsInt(d))
        sgn == IF d < 0 THEN -1 ELSE 1
    IN [k |-> "num", n |-> (sgn * n) \div g, d |-> AbsInt(d) \div g, s |-> <<>>]

IsNone(v) == v.k = "none"

IsNum(v) == v.k = "num"

\* math.isnan / np.isnan on a float.
isnan(v) == v.k = "nan"

\* Float operators: NaN propagates, comparisons with NaN are False.
Mul(a, b) == IF isnan(a) \/ isnan(b) THEN NaN ELSE Num(a.n * b.n, a.d * b.d)

Div(a, b) == IF isnan(a) \/ isnan(b) THEN NaN ELSE Num(a.n * b.d, a.d * b.n)

Sub(a, b) == IF isnan(a) \/ isnan(b) THEN NaN ELSE Num(a.n * b.d - b.n * a.d, a.d * b.d)

Add(a, b) == IF isnan(a) \/ isnan(b) THEN NaN ELSE Num(a.n * b.d + b.n * a.d, a.d * b.d)

Lt(a, b) == IsNum(a) /\ IsNum(b) /\ a.n * b.d < b.n * a.d

Le(a, b) == IsNum(a) /\ IsNum(b) /\ a.n * b.d <= b.n * a.d

Gt(a, b) == Lt(b, a)

Eq(a, b) == IsNum(a) /\ IsNum(b) /\ a.n * b.d = b.n * a.d

Zero == Num(0, 1)

\* round(x, 2): the nearest hundredth, a tie going to the even hundredth;
\* round(nan, 2) is nan.
round2(x) ==
    IF isnan(x) THEN NaN
    ELSE LET m == x.n * 100
             q == m \div x.d
             r == m - q * x.d
         IN IF 2 * r < x.d THEN Num(q, 100)
            ELSE IF 2 * r > x.d THEN Num(q + 1, 100)
            ELSE IF q % 2 = 0 THEN Num(q, 100) ELSE Num(q + 1, 100)

(***************************************************************************)
(* str operations.                                                         *)
(***************************************************************************)
IsSpace(c) == c \in {" ", "\t", "\n"}

RECURSIVE lstrip(_)
lstrip(s) == IF s # <<>> /\ IsSpace(Head(s)) THEN lstrip(Tail(s)) ELSE s

RECURSIVE rstrip(_)
rstrip(s) ==
    IF s # <<>> /\ IsSpace(s[Len(s)]) THEN rstrip(SubSeq(s, 1, Len(s) - 1)) ELSE s

\* str.strip()
strip(s) == rstrip(lstrip(s))

LowerChar(c) ==
    CASE c = "A" -> "a" [] c = "B" -> "b" [] c = "C" -> "c" [] c = "D" -> "d"
      [] c = "E" -> "e" [] c = "F" -> "f" [] c = "G" -> "g" [] c = "H" -> "h"
      [] c = "I" -> "i" [] c = "J" -> "j" [] c = "K" -> "k" [] c = "L" -> "l"
      [] c = "M" -> "m" [] c = "N" -> "n" [] c = "O" -> "o" [] c = "P" -> "p"
      [] c = "Q" -> "q" [] c = "R" -> "r" [] c = "S" -> "s" [] c = "T" -> "t"
      [] c = "U" -> "u" [] c = "V" -> "v" [] c = "W" -> "w" [] c = "X" -> "x"
      [] c = "Y" -> "y" [] c = "Z" -> "z"
      [] OTHER -> c

\* str.lower()
lower(s) == [i \in 1..Len(s) |-> LowerChar(s[i])]

(***************************************************************************)
(* float(str): optional surrounding whitespace, an optional sign, then     *)
(* "nan" in any case or decimal digits with at most one point and at       *)
(* least one digit.  (Exponents, underscores and "inf" need characters     *)
(* the input alphabet below does not hold.)                                *)
(***************************************************************************)
Digits == {"0", "1", "2", "3", "4", "5", "6", "7", "8", "9"}

DigitVal(c) ==
    CASE c = "0" -> 0 [] c = "1" -> 1 [] c = "2" -> 2 [] c = "3" -> 3 [] c = "4" -> 4
      [] c = "5" -> 5 [] c = "6" -> 6 [] c = "7" -> 7 [] c = "8" -> 8 [] c = "9" -> 9

RECURSIVE Pow10(_)
Pow10(e) == IF e = 0 THEN 1 ELSE 10 * Pow10(e - 1)

RECURSIVE DigitsVal(_)
DigitsVal(s) ==
    IF s = <<>> THEN 0 ELSE 10 * DigitsVal(SubSeq(s, 1, Len(s) - 1)) + DigitVal(s[Len(s)])

AllDigits(s) == \A i \in 1..Len(s) : s[i] \in Digits

\* An unsigned decimal literal: [ok, v].
ParseUnsigned(s) ==
    LET dots == {i \in 1..Len(s) : s[i] = "."}
    IN IF dots = {}
       THEN IF s # <<>> /\ AllDigits(s)
            THEN [ok |-> TRUE, v |-> Num(DigitsVal(s), 1)]
            ELSE [ok |-> FALSE, v |-> NaN]
       ELSE LET p == CHOOSE i \in dots : TRUE
                ip == SubSeq(s, 1, p - 1)
                fp == SubSeq(s, p + 1, Len(s))
            IN IF Cardinality(dots) = 1 /\ AllDigits(ip) /\ AllDigits(fp) /\ Len(s) > 1
               THEN [ok |-> TRUE,
                     v |-> Num(DigitsVal(ip) * Pow10(Len(fp)) + DigitsVal(fp), Pow10(Len(fp)))]
               ELSE [ok |-> FALSE, v |-> NaN]

\* The literal after its sign: "nan" in any case, or an unsigned decimal.
ParseSigned(negative, body, u) ==
    IF lower(body) = <<"n", "a", "n">> THEN [ok |-> TRUE, v |-> NaN]
    ELSE IF ~u.ok THEN u
    ELSE IF negative THEN [ok |-> TRUE, v |-> Num(-u.v.n, u.v.d)]
    ELSE u

ParseStripped(t) ==
    IF t # <<>> /\ Head(t) \in {"-", "+"}
    THEN ParseSigned(Head(t) = "-", Tail(t), ParseUnsigned(Tail(t)))
    ELSE ParseSigned(FALSE, t, ParseUnsigned(t))

\* float(s) for a str s: [ok, v]; ok = FALSE is ValueError.
ParseFloat(chars) == ParseStripped(strip(chars))

(***************************************************************************)
(* utils.py                                                                *)
(***************************************************************************)
\* pd.isna on a scalar.
isna(x) == IsNone(x) \/ isnan(x)

\* try: val = float(x); return (val, "") / except: return (np.nan, "non-numeric")
float_or_non_numeric(p) ==
    IF p.ok THEN [v |-> p.v, note |-> ""] ELSE [v |-> NaN, note |-> "non-numeric"]

\* safe_float(x) -> (value, note)
safe_float(x) ==
    IF isna(x) THEN [v |-> NaN, note |-> "missing"]
    ELSE IF IsNum(x) THEN [v |-> x, note |-> ""]
    ELSE float_or_non_numeric(ParseFloat(x.s))

\* safe_ratio(x) -> (value, note): a copy of safe_float.
safe_ratio(x) ==
    IF isna(x) THEN [v |-> NaN, note |-> "missing"]
    ELSE IF IsNum(x) THEN [v |-> x, note |-> ""]
    ELSE float_or_non_numeric(ParseFloat(x.s))

compute_concentration_from_a260(a260, factor) == Mul(a260, factor)

\* The pieces calculate_ratios appends to its note; each is followed by a space.
NOTE_A280 == "A280 missing or zero;"

NOTE_ERR_280 == "Error computing 260/280;"

\* "نسبة 260/230 مفقودة — استخدم افتراضي 0.5 لحسابها;"
NOTE_230_DEFAULT == "260/230 ratio missing - default 0.5 used to compute it;"

\* Mutant of DEFAULT_230_DIVISOR: the fallback ratio is a260 itself.
DEFAULT_230_DIVISOR_ONE == Num(1, 1)

\* The divisor assumed for a missing 260/230 ratio (a260 / 0.5).
DEFAULT_230_DIVISOR == Num(5, 10)

\* Mutant of ratio_260_280_part: a zero a280 gives the invalid ratio without a note.
ratio_260_280_part_silent_zero(a260, a280) ==
    IF IsNone(a280) THEN [r |-> NaN, note |-> <<NOTE_ERR_280, " ">>]
    ELSE IF Eq(a280, Zero) THEN [r |-> NaN, note |-> <<>>]
    ELSE IF isnan(a280) THEN [r |-> NaN, note |-> <<NOTE_A280, " ">>]
    ELSE IF IsNone(a260) THEN [r |-> NaN, note |-> <<NOTE_ERR_280, " ">>]
    ELSE [r |-> Div(a260, a280), note |-> <<>>]

\* Lines 73-81: the 260/280 ratio and what it adds to the note.  a280 == 0 is
\* False for None, and math.isnan(None) and a260 / None raise TypeError, which
\* the except clause catches.
ratio_260_280_part(a260, a280) ==
    IF IsNone(a280) THEN [r |-> NaN, note |-> <<NOTE_ERR_280, " ">>]
    ELSE IF Eq(a280, Zero) \/ isnan(a280) THEN [r |-> NaN, note |-> <<NOTE_A280, " ">>]
    ELSE IF IsNone(a260) THEN [r |-> NaN, note |-> <<NOTE_ERR_280, " ">>]
    ELSE [r |-> Div(a260, a280), note |-> <<>>]

\* Mutant of calculate_ratios: only a ratio that is None is replaced, a NaN one
\* is returned as it is.
calculate_ratios_none_only(a260, a280, ratio_260_230) ==
    LET p == ratio_260_280_part(a260, a280)
    IN IF IsNone(ratio_260_230)
       THEN IF IsNone(a260)
            THEN [exc |-> "TypeError", r260_280 |-> NaN, r260_230 |-> NaN, note |-> <<>>]
            ELSE [exc |-> "",
                  r260_280 |-> p.r,
                  r260_230 |-> IF ~isnan(a260) THEN Div(a260, DEFAULT_230_DIVISOR) ELSE NaN,
                  note |-> strip(p.note \o <<NOTE_230_DEFAULT, " ">>)]
       ELSE [exc |-> "", r260_280 |-> p.r, r260_230 |-> ratio_260_230, note |-> strip(p.note)]

\* calculate_ratios(a260, a280, ratio_260_230=None) -> (r260_280, r260_230, note);
\* exc names the exception raised, "" when it returns.
calculate_ratios(a260, a280, ratio_260_230) ==
    LET p == ratio_260_280_part(a260, a280)
    IN IF IsNone(ratio_260_230) \/ isnan(ratio_260_230)
       THEN IF IsNone(a260)
            THEN [exc |-> "TypeError", r260_280 |-> NaN, r260_230 |-> NaN, note |-> <<>>]
            ELSE [exc |-> "",
                  r260_280 |-> p.r,
                  r260_230 |-> IF ~isnan(a260) THEN Div(a260, DEFAULT_230_DIVISOR) ELSE NaN,
                  note |-> strip(p.note \o <<NOTE_230_DEFAULT, " ">>)]
       ELSE [exc |-> "", r260_280 |-> p.r, r260_230 |-> ratio_260_230, note |-> strip(p.note)]

NOTE_ZERO_CONC == "zero concentration or invalid concentration"

NOTE_TOO_DILUTE == "sample too dilute to reach target - need to concentrate or use more sample"

\* Mutant of calculate_dilution: a sample volume above final_vol is reported
\* as final_vol.
calculate_dilution_clamped(concentration, target_conc, final_vol) ==
    IF Eq(concentration, Zero) \/ isnan(concentration)
    THEN [v1 |-> NaN, v2 |-> NaN, note |-> NOTE_ZERO_CONC]
    ELSE LET v1 == Div(Mul(target_conc, final_vol), concentration)
             v2 == Sub(final_vol, v1)
         IN [v1 |-> IF Gt(v1, final_vol) THEN round2(final_vol) ELSE round2(v1),
             v2 |-> round2(v2),
             note |-> IF Gt(v1, final_vol) THEN NOTE_TOO_DILUTE ELSE ""]

\* Mutant of calculate_dilution: the diluent volume is not allowed below zero.
calculate_dilution_diluent_floor(concentration, target_conc, final_vol) ==
    IF Eq(concentration, Zero) \/ isnan(concentration)
    THEN [v1 |-> NaN, v2 |-> NaN, note |-> NOTE_ZERO_CONC]
    ELSE LET v1 == Div(Mul(target_conc, final_vol), concentration)
             v2 == IF Gt(v1, final_vol) THEN Zero ELSE Sub(final_vol, v1)
         IN [v1 |-> round2(v1),
             v2 |-> round2(v2),
             note |-> IF Gt(v1, final_vol) THEN NOTE_TOO_DILUTE ELSE ""]

\* calculate_dilution(concentration, target_conc, final_vol) -> (v1, v2, note)
calculate_dilution(concentration, target_conc, final_vol) ==
    IF Eq(concentration, Zero) \/ isnan(concentration)
    THEN [v1 |-> NaN, v2 |-> NaN, note |-> NOTE_ZERO_CONC]
    ELSE LET v1 == Div(Mul(target_conc, final_vol), concentration)
             v2 == Sub(final_vol, v1)
         IN [v1 |-> round2(v1),
             v2 |-> round2(v2),
             note |-> IF Gt(v1, final_vol) THEN NOTE_TOO_DILUTE ELSE ""]

\* Verdicts: "حسن" and "تحذير".
VERDICT_OK == "OK"

VERDICT_WARNING == "WARNING"

\* The recommendation texts of assess_purity, by line.
REC_NO_280 == "260/280 cannot be computed: data missing"

REC_NO_230 == "260/230 cannot be computed: data missing"

REC_DNA_280_LOW == "DNA 260/280 low (<1.7): protein or other contaminant residue"

REC_DNA_230_LOW == "DNA 260/230 low (<1.8): salt or carrier contamination"

REC_RNA_280_LOW == "RNA 260/280 low (<1.9): degradation or contamination"

REC_RNA_230_LOW == "RNA 260/230 low (<1.8): salts or carrier contaminants"

REC_PROTEIN_280_HIGH == "protein 260/280 high (>1.2): nucleic-acid contamination"

REC_OTHER_280_LOW == "260/280 low: contaminants or impurities"

REC_OTHER_230_LOW == "260/230 low: salts or carrier contaminants"

REC_WITHIN_BOUNDS == "purity within acceptable bounds and accepted scientific standards"

\* The separator of "؛ ".join(recommendations).
REC_SEPARATOR == "; (Arabic semicolon, space)"

\* sep.join(list): the entries with the separator between neighbours.
RECURSIVE join(_, _)
join(sep, list) ==
    IF list = <<>> THEN <<>>
    ELSE IF Len(list) = 1 THEN list
    ELSE <<Head(list), sep>> \o join(sep, Tail(list))

\* (sample_type or ""): None and "" give ""; a float is kept unless it is 0.0.
or_empty(sample_type) ==
    IF IsNone(sample_type) THEN Str(<<>>)
    ELSE IF IsNum(sample_type) /\ sample_type.n = 0 THEN Str(<<>>)
    ELSE sample_type

If(c, entry) == IF c THEN <<entry>> ELSE <<>>

\* Mutant of dna_rules: the 260/230 rule is evaluated before the 260/280 rule.
dna_rules_230_first(r260_280, r260_230) ==
    (IF isnan(r260_230) THEN <<REC_NO_230>>
     ELSE If(Lt(r260_230, Num(18, 10)), REC_DNA_230_LOW))
    \o (IF isnan(r260_280) THEN <<REC_NO_280>>
        ELSE If(Lt(r260_280, Num(17, 10)), REC_DNA_280_LOW))

\* Mutant of dna_rules: the thresholds compared with <= instead of <.
dna_rules_inclusive(r260_280, r260_230) ==
    (IF isnan(r260_280) THEN <<REC_NO_280>>
     ELSE If(Le(r260_280, Num(17, 10)), REC_DNA_280_LOW))
    \o (IF isnan(r260_230) THEN <<REC_NO_230>>
        ELSE If(Le(r260_230, Num(18, 10)), REC_DNA_230_LOW))

\* Lines 116-126: the DNA rules.
dna_rules(r260_280, r260_230) ==
    (IF isnan(r260_280) THEN <<REC_NO_280>>
     ELSE If(Lt(r260_280, Num(17, 10)), REC_DNA_280_LOW))
    \o (IF isnan(r260_230) THEN <<REC_NO_230>>
        ELSE If(Lt(r260_230, Num(18, 10)), REC_DNA_230_LOW))

\* Mutant of rna_rules: the DNA threshold 1.7 used for 260/280.
rna_rules_dna_threshold(r260_280, r260_230) ==
    (IF isnan(r260_280) THEN <<REC_NO_280>>
     ELSE If(Lt(r260_280, Num(17, 10)), REC_RNA_280_LOW))
    \o (IF isnan(r260_230) THEN <<REC_NO_230>>
        ELSE If(Lt(r260_230, Num(18, 10)), REC_RNA_230_LOW))

\* Lines 129-139: the RNA rules.
rna_rules(r260_280, r260_230) ==
    (IF isnan(r260_280) THEN <<REC_NO_280>>
     ELSE If(Lt(r260_280, Num(19, 10)), REC_RNA_280_LOW))
    \o (IF isnan(r260_230) THEN <<REC_NO_230>>
        ELSE If(Lt(r260_230, Num(18, 10)), REC_RNA_230_LOW))

\* Lines 142-144: the protein rule.
protein_rules(r260_280) ==
    If(~isnan(r260_280) /\ Gt(r260_280, Num(12, 10)), REC_PROTEIN_280_HIGH)

\* Mutant of other_rules: an invalid ratio produces the "cannot be computed"
\* entry, as it does for DNA and RNA.
other_rules_invalid_warns(r260_280, r260_230) ==
    (IF isnan(r260_280) THEN <<REC_NO_280>>
     ELSE If(Lt(r260_280, Num(17, 10)), REC_OTHER_280_LOW))
    \o (IF isnan(r260_230) THEN <<REC_NO_230>>
        ELSE If(Lt(r260_230, Num(18, 10)), REC_OTHER_230_LOW))

\* Lines 147-151: the rules of any other type.
other_rules(r260_280, r260_230) ==
    If(~isnan(r260_280) /\ Lt(r260_280, Num(17, 10)), REC_OTHER_280_LOW)
    \o If(~isnan(r260_230) /\ Lt(r260_230, Num(18, 10)), REC_OTHER_230_LOW)

\* Mutant of purity_rules: a protein sample is given the 260/230 rule of the
\* other types as well.
purity_rules_protein_230(r260_280, r260_230, sample_type_up) ==
    IF sample_type_up = <<"d", "n", "a">> THEN dna_rules(r260_280, r260_230)
    ELSE IF sample_type_up = <<"r", "n", "a">> THEN rna_rules(r260_280, r260_230)
    ELSE IF sample_type_up \in {<<"p", "r", "o", "t", "e", "i", "n">>, <<"p", "r", "o", "t">>}
    THEN protein_rules(r260_280)
         \o If(~isnan(r260_230) /\ Lt(r260_230, Num(18, 10)), REC_OTHER_230_LOW)
    ELSE other_rules(r260_280, r260_230)

\* Lines 115-151: the recommendations the rules of the sample type produce,
\* sample_type_up being the stripped, lower-cased type.
purity_rules(r260_280, r260_230, sample_type_up) ==
    IF sample_type_up = <<"d", "n", "a">> THEN dna_rules(r260_280, r260_230)
    ELSE IF sample_type_up = <<"r", "n", "a">> THEN rna_rules(r260_280, r260_230)
    ELSE IF sample_type_up \in {<<"p", "r", "o", "t", "e", "i", "n">>, <<"p", "r", "o", "t">>}
    THEN protein_rules(r260_280)
    ELSE other_rules(r260_280, r260_230)

\* Mutant of purity_verdict_of: the canned message is appended whatever the list.
purity_verdict_of_always_canned(recommendations) ==
    IF recommendations # <<>>
    THEN [exc |-> "", verdict |-> VERDICT_WARNING,
          text |-> join(REC_SEPARATOR, recommendations \o <<REC_WITHIN_BOUNDS>>)]
    ELSE [exc |-> "", verdict |-> VERDICT_OK, text |-> join(REC_SEPARATOR, <<REC_WITHIN_BOUNDS>>)]

\* Lines 153-161: the verdict and the joined text of a list of recommendations.
purity_verdict_of(recommendations) ==
    IF recommendations # <<>>
    THEN [exc |-> "", verdict |-> VERDICT_WARNING, text |-> join(REC_SEPARATOR, recommendations)]
    ELSE [exc |-> "", verdict |-> VERDICT_OK, text |-> join(REC_SEPARATOR, <<REC_WITHIN_BOUNDS>>)]

\* assess_purity(r260_280, r260_230, sample_type) -> (verdict, recommendation_text);
\* a float sample_type that is not 0.0 has no strip(): AttributeError.
assess_purity(r260_280, r260_230, sample_type) ==
    LET t == or_empty(sample_type)
    IN IF t.k # "str"
       THEN [exc |-> "AttributeError", verdict |-> "", text |-> <<>>]
       ELSE purity_verdict_of(purity_rules(r260_280, r260_230, lower(strip(t.s))))

(***************************************************************************)
(* Dicts.  A dict is [keys, vals]: its keys in insertion order and the     *)
(* value of each.                                                          *)
(***************************************************************************)
EmptyDict == [keys |-> <<>>, vals |-> <<>>]

HasKey(dct, key) == \E i \in 1..Len(dct.keys) : dct.keys[i] = key

Lookup(dct, key) == dct.vals[CHOOSE i \in 1..Len(dct.keys) : dct.keys[i] = key]

\* dict.get(key, default)
Get(dct, key, default) == IF HasKey(dct, key) THEN Lookup(dct, key) ELSE default

\* dct[key] = value: a present key keeps its place, a new one goes last.
Put(dct, key, value) ==
    IF HasKey(dct, key)
    THEN [keys |-> dct.keys,
          vals |-> [i \in 1..Len(dct.keys) |-> IF dct.keys[i] = key THEN value ELSE dct.vals[i]]]
    ELSE [keys |-> Append(dct.keys, key), vals |-> Append(dct.vals, value)]

\* dct.update(other)
RECURSIVE Update(_, _)
Update(dct, other) ==
    IF other.keys = <<>> THEN dct
    ELSE Update(Put(dct, Head(other.keys), Head(other.vals)),
                [keys |-> Tail(other.keys), vals |-> Tail(other.vals)])

\* "; ".join(notes), each note a text (a sequence of pieces).
NOTE_SEPARATOR == "; "

RECURSIVE join_texts(_, _)
join_texts(sep, list) ==
    IF list = <<>> THEN <<>>
    ELSE IF Len(list) = 1 THEN Head(list)
    ELSE Head(list) \o <<sep>> \o join_texts(sep, Tail(list))

\* The text of a note held as one piece; "" is the empty text.
Text(piece) == IF piece = "" THEN <<>> ELSE <<piece>>

\* The notes of a list that are not empty.
NonEmpty(list) == SelectSeq(list, LAMBDA t : t # <<>>)

(***************************************************************************)
(* map_columns: utils.py (app.py holds the same function).                 *)
(***************************************************************************)
\* The micro sign of "(ng/ul)" written with it, one character that lower()
\* leaves alone.
MICRO == "micro"

\* Lines 22-30: the registered variants of each canonical field, in order.
mapping_variants == <<
    [canon |-> "sample_id",
     variants |-> <<
           \* "sample id"
           <<"s", "a", "m", "p", "l", "e", " ", "i", "d">>,
           \* "id"
           <<"i", "d">>,
           \* "sample"
           <<"s", "a", "m", "p", "l", "e">>,
           \* "sample_name"
           <<"s", "a", "m", "p", "l", "e", "_", "n", "a", "m", "e">>,
           \* "sample name"
           <<"s", "a", "m", "p", "l", "e", " ", "n", "a", "m", "e">>>>],
    [canon |-> "a260",
     variants |-> <<
           \* "a260"
           <<"a", "2", "6", "0">>,
           \* "a260 (abs)"
           <<"a", "2", "6", "0", " ", "(", "a", "b", "s", ")">>,
           \* "a260nm"
           <<"a", "2", "6", "0", "n", "m">>,
           \* "abs260"
           <<"a", "b", "s", "2", "6", "0">>,
           \* "a260 (abs)"
           <<"a", "2", "6", "0", " ", "(", "a", "b", "s", ")">>>>],
    [canon |-> "a280",
     variants |-> <<
           \* "a280"
           <<"a", "2", "8", "0">>,
           \* "a280 (abs)"
           <<"a", "2", "8", "0", " ", "(", "a", "b", "s", ")">>,
           \* "a280nm"
           <<"a", "2", "8", "0", "n", "m">>,
           \* "abs280"
           <<"a", "b", "s", "2", "8", "0">>,
           \* "a280 (abs)"
           <<"a", "2", "8", "0", " ", "(", "a", "b", "s", ")">>>>],
    [canon |-> "a230",
     variants |-> <<
           \* "a230"
           <<"a", "2", "3", "0">>,
           \* "a230 (abs)"
           <<"a", "2", "3", "0", " ", "(", "a", "b", "s", ")">>,
           \* "a230nm"
           <<"a", "2", "3", "0", "n", "m">>,
           \* "abs230"
           <<"a", "b", "s", "2", "3", "0">>,
           \* "a230 (abs)"
           <<"a", "2", "3", "0", " ", "(", "a", "b", "s", ")">>>>],
    [canon |-> "nucleic_acid",
     variants |-> <<
           \* "nucleic acid"
           <<"n", "u", "c", "l", "e", "i", "c", " ", "a", "c", "i", "d">>,
           \* "nucleicacid"
           <<"n", "u", "c", "l", "e", "i", "c", "a", "c", "i", "d">>,
           \* "conc"
           <<"c", "o", "n", "c">>,
           \* "concentration"
           <<"c", "o", "n", "c", "e", "n", "t", "r", "a", "t", "i", "o", "n">>,
           \* "concentration (ng/u(micro)l)"
           <<"c", "o", "n", "c", "e", "n", "t", "r", "a", "t", "i", "o", "n", " ", "(", "n", "g", "/", MICRO, "l", ")">>,
           \* "concentration (ng/ul)"
           <<"c", "o", "n", "c", "e", "n", "t", "r", "a", "t", "i", "o", "n", " ", "(", "n", "g", "/", "u", "l", ")">>,
           \* "nucleic acid (ng/u(micro)l)"
           <<"n", "u", "c", "l", "e", "i", "c", " ", "a", "c", "i", "d", " ", "(", "n", "g", "/", MICRO, "l", ")">>>>],
    [canon |-> "sample_type",
     variants |-> <<
           \* "sample type"
           <<"s", "a", "m", "p", "l", "e", " ", "t", "y", "p", "e">>,
           \* "type"
           <<"t", "y", "p", "e">>,
           \* "sample_type"
           <<"s", "a", "m", "p", "l", "e", "_", "t", "y", "p", "e">>,
           \* "nucleic_type"
           <<"n", "u", "c", "l", "e", "i", "c", "_", "t", "y", "p", "e">>,
           \* "nucleic acid type"
           <<"n", "u", "c", "l", "e", "i", "c", " ", "a", "c", "i", "d", " ", "t", "y", "p", "e">>>>],
    [canon |-> "factor",
     variants |-> <<
           \* "factor"
           <<"f", "a", "c", "t", "o", "r">>,
           \* "conversion factor"
           <<"c", "o", "n", "v", "e", "r", "s", "i", "o", "n", " ", "f", "a", "c", "t", "o", "r">>,
           \* "factor50"
           <<"f", "a", "c", "t", "o", "r", "5", "0">>,
           \* "cfactor"
           <<"c", "f", "a", "c", "t", "o", "r">>>>]>>

\* Line 33: {col.lower(): col for col in columns}.  A lower-cased header met
\* again keeps its first place and takes the later header as its value.
RECURSIVE lower_map(_)
lower_map(columns) ==
    IF columns = <<>> THEN EmptyDict
    ELSE Put(lower_map(SubSeq(columns, 1, Len(columns) - 1)),
             lower(columns[Len(columns)].s), columns[Len(columns)])

\* var in col_lower, both str: var is a substring of col_lower.
Contains(var, col_lower) ==
    \E i \in 0..(Len(col_lower) - Len(var)) : SubSeq(col_lower, i + 1, i + Len(var)) = var

\* The least of a non-empty set of positions.
First(positions) == CHOOSE i \in positions : \A j \in positions : i <= j

\* Lines 36-40: the header of the first variant that is a key of lower_map,
\* None when there is none.
exact_match(variants, lm) ==
    IF \E v \in 1..Len(variants) : HasKey(lm, variants[v])
    THEN Lookup(lm, variants[First({v \in 1..Len(variants) : HasKey(lm, variants[v])})])
    ELSE None

\* Lines 43-49: the header of the first key of lower_map that contains a
\* variant, None when there is none.
contains_match(variants, lm) ==
    IF \E i \in 1..Len(lm.keys) : \E v \in 1..Len(variants) : Contains(variants[v], lm.keys[i])
    THEN lm.vals[First({i \in 1..Len(lm.keys) :
                            \E v \in 1..Len(variants) : Contains(variants[v], lm.keys[i])})]
    ELSE None

\* Mutant of detect: the contains stage comes first, the exact match being
\* used only when no header contains a variant.
detect_contains_first(exact, variants, lm) ==
    IF IsNone(contains_match(variants, lm)) THEN exact ELSE contains_match(variants, lm)

\* Lines 35-49 for one field: the contains stage runs only when the exact
\* stage left None.
detect(exact, variants, lm) == IF IsNone(exact) THEN contains_match(variants, lm) ELSE exact

\* Lines 32-50 once lower_map is built.
detected_of(lm) ==
    [keys |-> [f \in 1..Len(mapping_variants) |-> mapping_variants[f].canon],
     vals |-> [f \in 1..Len(mapping_variants) |->
                  detect(exact_match(mapping_variants[f].variants, lm),
                         mapping_variants[f].variants, lm)]]

\* map_columns(columns) -> detected
map_columns(columns) == detected_of(lower_map(columns))

(***************************************************************************)
(* process_single_sample: app.py and single_sample.py                      *)
(***************************************************************************)
DEFAULT_FACTOR == Num(50, 1)

DEFAULT_SAMPLE_TYPE == Str(<<"D", "N", "A">>)

NOTE_FINAL_VOL == "Final volume must be positive."

NOTE_TARGET_CONC == "Target concentration must be non-negative."

NOTE_A260_INVALID == "A260 is missing or invalid"

NOTE_CONC_INVALID == "Concentration invalid (NaN or missing A260)"

Raise(e) == [exc |-> e, ret |-> EmptyDict]

Return(dct) == [exc |-> "", ret |-> dct]

\* round(x, 2) if not isnan(x) else np.nan
rounded_or_nan(x) == IF ~isnan(x) THEN round2(x) ELSE NaN

\* Mutant of validate_settings: final_vol is rejected only when negative.
validate_settings_zero_accepted(inputs, protocol_settings) ==
    LET target_conc == Get(inputs, "target_conc", protocol_settings.target_conc)
        final_vol == Get(inputs, "final_vol", protocol_settings.final_vol)
    IN IF IsNone(final_vol) THEN [go |-> "raise", out |-> Raise("TypeError")]
       ELSE IF Lt(final_vol, Zero)
       THEN [go |-> "return", out |-> Return(Put(EmptyDict, "Notes", <<NOTE_FINAL_VOL>>))]
       ELSE IF IsNone(target_conc) THEN [go |-> "raise", out |-> Raise("TypeError")]
       ELSE IF Lt(target_conc, Zero)
       THEN [go |-> "return", out |-> Return(Put(EmptyDict, "Notes", <<NOTE_TARGET_CONC>>))]
       ELSE [go |-> "", out |-> Return(EmptyDict)]

\* Lines 184-196 of app.py (13-25 of single_sample.py): the effective settings
\* and their validation.  go = "" when the request passes; a None setting
\* cannot be compared with 0: TypeError.
validate_settings(inputs, protocol_settings) ==
    LET target_conc == Get(inputs, "target_conc", protocol_settings.target_conc)
        final_vol == Get(inputs, "final_vol", protocol_settings.final_vol)
    IN IF IsNone(final_vol) THEN [go |-> "raise", out |-> Raise("TypeError")]
       ELSE IF Le(final_vol, Zero)
       THEN [go |-> "return", out |-> Return(Put(EmptyDict, "Notes", <<NOTE_FINAL_VOL>>))]
       ELSE IF IsNone(target_conc) THEN [go |-> "raise", out |-> Raise("TypeError")]
       ELSE IF Lt(target_conc, Zero)
       THEN [go |-> "return", out |-> Return(Put(EmptyDict, "Notes", <<NOTE_TARGET_CONC>>))]
       ELSE [go |-> "", out |-> Return(EmptyDict)]

\* The dict process_single_sample returns (app.py lines 221-232).
single_sample_result(concentration, ratios, dilution, purity, target_conc, final_vol, notes) ==
    [keys |-> <<"Concentration_ng_per_ul", "260/280", "260/230", "Purity", "Purity_notes",
                "Volume Sample (ul)", "Volume Diluent (ul)",
                "Protocol_target_ng_per_ul", "Protocol_final_vol_ul", "Notes">>,
     vals |-> <<rounded_or_nan(concentration),
                rounded_or_nan(ratios.r260_280),
                rounded_or_nan(ratios.r260_230),
                purity.verdict,
                purity.text,
                dilution.v1,
                dilution.v2,
                target_conc,
                final_vol,
                join_texts(NOTE_SEPARATOR, notes)>>]

\* app.py: process_single_sample(inputs, protocol_settings)
process_single_sample(inputs, protocol_settings) ==
    LET a260 == Get(inputs, "a260", None)
        a280 == Get(inputs, "a280", None)
        ratio_260_230 == Get(inputs, "ratio_260_230", None)
        factor == Get(inputs, "factor", DEFAULT_FACTOR)
        sample_type == Get(inputs, "sample_type", DEFAULT_SAMPLE_TYPE)
        target_conc == Get(inputs, "target_conc", protocol_settings.target_conc)
        final_vol == Get(inputs, "final_vol", protocol_settings.final_vol)
        checked == validate_settings(inputs, protocol_settings)
        concentration == IF ~isnan(a260) THEN compute_concentration_from_a260(a260, factor) ELSE NaN
        ratios == calculate_ratios(a260, a280, ratio_260_230)
        dilution == calculate_dilution(concentration, target_conc, final_vol)
        purity == assess_purity(ratios.r260_280, ratios.r260_230, sample_type)
        notes == NonEmpty(<<ratios.note,
                            Text(dilution.note),
                            IF isnan(a260) THEN <<NOTE_A260_INVALID>> ELSE <<>>,
                            IF isnan(concentration) THEN <<NOTE_CONC_INVALID>> ELSE <<>>>>)
    IN IF checked.go # "" THEN checked.out
       ELSE IF IsNone(a260) \/ IsNone(factor) THEN Raise("TypeError")
       ELSE IF ratios.exc # "" THEN Raise(ratios.exc)
       ELSE IF purity.exc # "" THEN Raise(purity.exc)
       ELSE Return(single_sample_result(concentration, ratios, dilution, purity,
                                        target_conc, final_vol, notes))

\* single_sample.py: process_single_sample(inputs, protocol_settings).  Line 31
\* calls calculate_ratios(inputs), one argument for a function that requires
\* two: TypeError, whatever the inputs.
single_sample_process_single_sample(inputs, protocol_settings) ==
    LET checked == validate_settings(inputs, protocol_settings)
    IN IF checked.go # "" THEN checked.out
       ELSE Raise("TypeError")

(***************************************************************************)
(* process_dataframe: dataframe_processor.py (and its copy in app.py).     *)
(* A DataFrame is [columns, rows]: the headers in order and, per row, the  *)
(* cells in column order.  Headers are str values.                         *)
(***************************************************************************)
\* The columns process_dataframe adds.  ("u" stands for the micro sign.)
COL_CONC == Str(<<"C", "o", "n", "c", "_", "n", "g", "_", "p", "e", "r", "_", "u", "l">>)

COL_260_280 == Str(<<"2", "6", "0", "/", "2", "8", "0">>)

COL_260_230 == Str(<<"2", "6", "0", "/", "2", "3", "0">>)

COL_PURITY == Str(<<"P", "u", "r", "i", "t", "y">>)

COL_PURITY_NOTES == Str(<<"P", "u", "r", "i", "t", "y", "_", "n", "o", "t", "e", "s">>)

COL_VOLUME_SAMPLE ==
    Str(<<"V", "o", "l", "u", "m", "e", " ", "S", "a", "m", "p", "l", "e", " ", "(", "u", "l", ")">>)

COL_VOLUME_DILUENT ==
    Str(<<"V", "o", "l", "u", "m", "e", " ", "D", "i", "l", "u", "e", "n", "t", " ", "(", "u", "l", ")">>)

COL_NOTES == Str(<<"N", "o", "t", "e", "s">>)

COL_UL_DNA == Str(<<"u", "l", "_", "D", "N", "A">>)

COL_UL_H2O == Str(<<"u", "l", "_", "H", "2", "O">>)

\* Line 95.
added_cols ==
    <<COL_CONC, COL_260_280, COL_260_230, COL_PURITY, COL_PURITY_NOTES,
      COL_UL_DNA, COL_UL_H2O, COL_NOTES>>

\* The notes of a row: "A260: القيمة مفقودة", "A260: القيمة غير رقمية", ...
NOTE_A260_MISSING == "A260: value missing"

NOTE_A260_NON_NUMERIC == "A260: value non-numeric"

NOTE_A280_MISSING == "A280: value missing"

NOTE_A280_NON_NUMERIC == "A280: value non-numeric"

NOTE_RATIO_MISSING == "260/230 ratio: value missing"

NOTE_DEVICE_NON_NUMERIC == "device concentration: value non-numeric"

NOTE_CONC_NAN == "concentration invalid (NaN)"

NOTE_A230_BAD == "A230 missing/zero or invalid"

NOTE_A280_BAD == "A280 missing/zero or invalid"

\* key in ratio_note, for the keys "A230" and "A280": of the pieces
\* calculate_ratios writes only NOTE_A280 holds one of them ("A280").
Mentions(note, key) == key = "A280" /\ \E i \in 1..Len(note) : note[i] = NOTE_A280

\* row[detected_map[field]] if detected_map.get(field) in row.index else default
raw_cell(row, detected_map, field, default) ==
    LET col == Get(detected_map, field, None)
    IN IF HasKey(row, col) THEN Lookup(row, col) ELSE default

\* Mutant of row_concentration: the A260 computation comes first, the device
\* value being used only without a valid a260.
row_concentration_a260_first(a260, nucleic_val, factor_val, default_factor) ==
    LET factor_to_use == IF ~isnan(factor_val) THEN factor_val ELSE default_factor
    IN IF ~isnan(a260) THEN compute_concentration_from_a260(a260, factor_to_use)
       ELSE nucleic_val

\* Lines 31-44: the concentration of a row.
row_concentration(a260, nucleic_val, factor_val, default_factor) ==
    LET factor_to_use == IF ~isnan(factor_val) THEN factor_val ELSE default_factor
    IN IF ~isnan(nucleic_val) THEN nucleic_val
       ELSE IF isnan(a260) THEN NaN
       ELSE compute_concentration_from_a260(a260, factor_to_use)

\* Lines 55-78: the notes of a row.
row_notes(note_a260, note_a280, note_ratio_260_230, note_nuc, conc, dilution_note, ratio_note) ==
    (IF note_a260 = "missing" THEN <<NOTE_A260_MISSING>>
     ELSE IF note_a260 = "non-numeric" THEN <<NOTE_A260_NON_NUMERIC>> ELSE <<>>)
    \o (IF note_a280 = "missing" THEN <<NOTE_A280_MISSING>>
        ELSE IF note_a280 = "non-numeric" THEN <<NOTE_A280_NON_NUMERIC>> ELSE <<>>)
    \o If(note_ratio_260_230 = "missing", NOTE_RATIO_MISSING)
    \o If(note_nuc = "non-numeric", NOTE_DEVICE_NON_NUMERIC)
    \o If(isnan(conc), NOTE_CONC_NAN)
    \o If(dilution_note # "", dilution_note)
    \o (IF ratio_note # <<>>
        THEN If(Mentions(ratio_note, "A230"), NOTE_A230_BAD)
             \o If(Mentions(ratio_note, "A280"), NOTE_A280_BAD)
        ELSE <<>>)

\* Lines 80-92: the row of the result: the original cells, then (or, under a
\* header that is already there, in place) the derived ones.
result_row(row, conc, ratios, dilution, purity, notes_list) ==
    Update(row,
           [keys |-> <<COL_CONC, COL_260_280, COL_260_230, COL_PURITY, COL_PURITY_NOTES,
                       COL_VOLUME_SAMPLE, COL_VOLUME_DILUENT, COL_NOTES>>,
            vals |-> <<rounded_or_nan(conc),
                       rounded_or_nan(ratios.r260_280),
                       rounded_or_nan(ratios.r260_230),
                       purity.verdict,
                       purity.text,
                       dilution.v1,
                       dilution.v2,
                       join(NOTE_SEPARATOR, notes_list)>>])

\* Lines 52-92, once the ratios and the dilution are known.  A sample-type
\* cell that is a float other than 0.0 (a blank cell is NaN) has no strip():
\* AttributeError.
row_purity_and_result(row, a260, a280, ratio_260_230, nucleic, conc, ratios, dilution, stype) ==
    IF stype.k # "str" THEN Raise("AttributeError")
    ELSE Return(result_row(row, conc, ratios, dilution,
                           assess_purity(ratios.r260_280, ratios.r260_230, Str(strip(stype.s))),
                           row_notes(a260.note, a280.note, ratio_260_230.note, nucleic.note,
                                     conc, dilution.note, ratios.note)))

\* Lines 46-92, once the concentration is known.
row_from_concentration(row, a260, a280, ratio_260_230, nucleic, conc, raw_sample_type,
                       protocol_settings) ==
    row_purity_and_result(row, a260, a280, ratio_260_230, nucleic, conc,
                          calculate_ratios(a260.v, a280.v, ratio_260_230.v),
                          calculate_dilution(conc, protocol_settings.target_conc,
                                             protocol_settings.final_vol),
                          or_empty(raw_sample_type))

\* Lines 31-92, for the converted cells.
row_from_values(row, a260, a280, ratio_260_230, nucleic, factor, raw_sample_type,
                protocol_settings, default_factor) ==
    row_from_concentration(row, a260, a280, ratio_260_230, nucleic,
                           row_concentration(a260.v, nucleic.v, factor.v, default_factor),
                           raw_sample_type, protocol_settings)

\* Lines 24-92, for the raw cells.
row_from_raw(row, raw_a260, raw_a280, raw_ratio_260_230, raw_nucleic, raw_factor,
             raw_sample_type, protocol_settings, default_factor) ==
    row_from_values(row,
                    safe_float(raw_a260),
                    safe_float(raw_a280),
                    IF ~isna(raw_ratio_260_230) THEN safe_ratio(raw_ratio_260_230)
                    ELSE [v |-> NaN, note |-> "missing"],
                    safe_float(raw_nucleic),
                    safe_float(raw_factor),
                    raw_sample_type, protocol_settings, default_factor)

\* Lines 15-92: one turn of the loop, for the row as a dict header -> cell.
\* (raw_sample_id is read and never used.)
process_row(row, detected_map, protocol_settings, default_factor) ==
    row_from_raw(row,
                 raw_cell(row, detected_map, "a260", NaN),
                 raw_cell(row, detected_map, "a280", NaN),
                 raw_cell(row, detected_map, "ratio_260_230", NaN),
                 raw_cell(row, detected_map, "nucleic_acid", NaN),
                 raw_cell(row, detected_map, "factor", NaN),
                 raw_cell(row, detected_map, "sample_type", None),
                 protocol_settings, default_factor)

\* The rows of a DataFrame as dicts, in order.
row_dict(df, i) == [keys |-> df.columns, vals |-> df.rows[i]]

\* The outcome of the loop, each[i] being the outcome of row i: the first row
\* that raises ends the loop with its exception.
loop_outcome(each, raising) ==
    IF raising # {}
    THEN [exc |-> each[CHOOSE i \in raising : \A j \in raising : i <= j].exc, results |-> <<>>]
    ELSE [exc |-> "", results |-> [i \in DOMAIN each |-> each[i].ret]]

\* The loop over the outcomes of the rows.
loop_over(each) == loop_outcome(each, {i \in DOMAIN each : each[i].exc # ""})

\* Lines 13-92: the loop; the rows are handled in order, each on its own.
process_rows(df, detected_map, protocol_settings, default_factor) ==
    loop_over([i \in 1..Len(df.rows) |->
                 process_row(row_dict(df, i), detected_map, protocol_settings, default_factor)])

InSeq(x, seq) == \E i \in 1..Len(seq) : seq[i] = x

\* pd.DataFrame(results): the columns are the keys of the row dicts (every row
\* has the same keys, in the same order); no rows, no columns.
DataFrame(results) ==
    IF results = <<>> THEN [columns |-> <<>>, rows |-> <<>>]
    ELSE [columns |-> results[1].keys, rows |-> [i \in 1..Len(results) |-> results[i].vals]]

\* df[cols]: the named columns, in that order.
select_columns(df, cols) ==
    [columns |-> cols,
     rows |-> [i \in 1..Len(df.rows) |->
                 [j \in 1..Len(cols) |-> Lookup(row_dict(df, i), cols[j])]]]

\* Lines 94-97: the original columns first, then the added ones.
reorder_columns(result_df) ==
    select_columns(result_df,
                   SelectSeq(result_df.columns, LAMBDA c : ~InSeq(c, added_cols))
                   \o SelectSeq(added_cols, LAMBDA c : InSeq(c, result_df.columns)))

\* Lines 93-98, for the outcome of the loop.
dataframe_of(looped) ==
    IF looped.exc # "" THEN [exc |-> looped.exc, df |-> [columns |-> <<>>, rows |-> <<>>]]
    ELSE [exc |-> "", df |-> reorder_columns(DataFrame(looped.results))]

\* process_dataframe(df, detected_map, protocol_settings, default_factor=50.0)
process_dataframe(df, detected_map, protocol_settings, default_factor) ==
    dataframe_of(process_rows(df, detected_map, protocol_settings, default_factor))

(***************************************************************************)
(* The calls: input grids, Init and the actions.                           *)
(***************************************************************************)
Tenths(lo, hi) == {Num(i, 10) : i \in lo..hi}

\* Ratios handed to assess_purity: invalid, 0 and 1.1 .. MaxRatioTenths / 10.
RatioVals == {NaN, Zero} \cup Tenths(11, MaxRatioTenths)

\* Absorbance readings as safe_float returns them.
AbsVals == {NaN} \cup Tenths(-1, MaxAbsTenths)

\* A supplied 260/230 ratio: absent, invalid or a number.
RatioArgs == {None, NaN, Zero, Num(3, 2), Num(18, 10), Num(21, 10)}

ConcVals == {NaN} \cup {Num(i, 1) : i \in (-2)..MaxConc} \cup {Num(1, 2), Num(50, 1)}

TargetVals == {Num(i, 2) : i \in (-1)..MaxTargetHalves} \cup {Num(10, 1)}

FinalVals == {Num(i, 4) : i \in (-1)..MaxFinalQuarters} \cup {Num(20, 1)}

SampleTypes ==
    {None, Str(<<>>), Str(<<" ">>),
     Str(<<"D", "N", "A">>), Str(<<"d", "n", "a">>), Str(<<" ", "D", "n", "a", " ">>),
     Str(<<"R", "N", "A">>), Str(<<"r", "N", "a", " ">>),
     Str(<<"P", "r", "o", "t", "e", "i", "n">>), Str(<<"p", "r", "o", "t">>),
     Str(<<"D", "N", "A", "x">>), Str(<<"x">>)}

\* Protocol settings as the configuration gives them, valid or not.
Protocol(t, f) == [target_conc |-> Num(t, 1), final_vol |-> Num(f, 1)]

ProtocolSettings ==
    {Protocol(10, 20), Protocol(5, 10), Protocol(15, 12), Protocol(10, 0), Protocol(-1, 20)}

\* An input of the single-sample dict that is not given.
Absent == [k |-> "absent", n |-> 0, d |-> 1, s |-> <<>>]

RECURSIVE Given(_, _)
Given(keys, vals) ==
    IF keys = <<>> THEN EmptyDict
    ELSE LET rest == Given(Tail(keys), Tail(vals))
         IN IF Head(vals) = Absent THEN rest
            ELSE [keys |-> <<Head(keys)>> \o rest.keys, vals |-> <<Head(vals)>> \o rest.vals]

SingleInputs ==
    {Given(<<"a260", "a280", "ratio_260_230", "factor", "sample_type", "target_conc", "final_vol">>,
           <<a260, a280, ratio, factor, stype, target, final>>) :
        a260 \in {Absent, NaN, Num(12, 100), Num(89, 100), Num(9, 10)},
        a280 \in {Absent, NaN, Zero, Num(7, 100)},
        ratio \in {Absent, NaN, Num(2, 1)},
        factor \in {Absent, NaN, Num(33, 1)},
        stype \in {Absent, Str(<<"D", "N", "A">>), Str(<<"P", "r", "o", "t", "e", "i", "n">>)},
        target \in {Absent, NaN, Num(-1, 1), Zero, Num(10, 1)},
        final \in {Absent, NaN, Num(-1, 1), Zero, Num(20, 1)}}

SingleProtocols == {Protocol(10, 20), Protocol(10, 0), Protocol(-1, 20)}

\* Tables.  The headers are variants map_columns registers.
H_ID == Str(<<"i", "d">>)

H_TYPE == Str(<<"t", "y", "p", "e">>)

H_A260 == Str(<<"a", "2", "6", "0">>)

H_A280 == Str(<<"a", "2", "8", "0">>)

H_A230 == Str(<<"a", "2", "3", "0">>)

H_CONC == Str(<<"c", "o", "n", "c">>)

H_FACTOR == Str(<<"f", "a", "c", "t", "o", "r">>)

S_ID == Str(<<"s", "1">>)

S_DNA == Str(<<"D", "N", "A">>)

S_RNA == Str(<<"r", "n", "a", " ">>)

S_PROTEIN == Str(<<"P", "r", "o", "t", "e", "i", "n">>)

S_ABC == Str(<<"a", "b", "c">>)

\* A full table: every field has a column, a 260/230 column included.
FullColumns == <<H_ID, H_TYPE, H_A260, H_A280, H_A230, H_CONC, H_FACTOR, COL_260_230>>

FullMap ==
    [keys |-> <<"sample_id", "a260", "a280", "a230", "nucleic_acid", "sample_type", "factor",
                "ratio_260_230">>,
     vals |-> <<H_ID, H_A260, H_A280, H_A230, H_CONC, H_TYPE, H_FACTOR, COL_260_230>>]

FullRows ==
    {<<S_ID, stype, a260, a280, a230, conc, factor, ratio>> :
        stype \in {S_DNA, S_PROTEIN, NaN},
        a260 \in {NaN, S_ABC, Num(9, 10), Num(123, 1000)},
        a280 \in {NaN, Zero, Num(1, 2)},
        a230 \in {NaN, Zero, Num(3, 10)},
        conc \in {NaN, S_ABC, Num(12346, 1000), Num(-3, 1)},
        factor \in {NaN, Num(33, 1)},
        ratio \in {NaN, Num(21, 10), Str(<<" ", "1", ".", "5">>)}}

\* The example table of the application: no device concentration, no factor,
\* no 260/230 column, and a map as map_columns returns it.
BasicColumns == <<H_ID, H_TYPE, H_A260, H_A280, H_A230>>

BasicMap ==
    [keys |-> <<"sample_id", "a260", "a280", "a230", "nucleic_acid", "sample_type", "factor">>,
     vals |-> <<H_ID, H_A260, H_A280, H_A230, None, H_TYPE, None>>]

BasicRows ==
    {<<S_ID, S_DNA, Num(12, 100), Num(7, 100), Num(6, 100)>>,
     <<S_ID, S_RNA, Num(8, 100), Num(4, 100), NaN>>,
     <<S_ID, S_PROTEIN, Num(2, 100), Num(3, 100), Num(1, 100)>>,
     <<S_ID, NaN, S_ABC, NaN, NaN>>}

RECURSIVE SeqsUpTo(_, _)
SeqsUpTo(S, len) ==
    IF len = 0 THEN {<<>>}
    ELSE LET shorter == SeqsUpTo(S, len - 1)
         IN shorter \cup {Append(q, x) : q \in shorter, x \in S}

Tables ==
    {[df |-> [columns |-> FullColumns, rows |-> <<r>>], detected_map |-> FullMap] : r \in FullRows}
    \cup {[df |-> [columns |-> BasicColumns, rows |-> rows], detected_map |-> BasicMap] :
            rows \in SeqsUpTo(BasicRows, MaxRows)}

\* Headers for map_columns: exact variants, the same in another case, headers
\* that only contain a variant, and one that matches nothing.
HeaderPool ==
    {Str(<<"i", "d">>),
     Str(<<"I", "D">>),
     Str(<<"s", "a", "m", "p", "l", "e">>),
     Str(<<"m", "y", " ", "i", "d">>),
     Str(<<"T", "y", "p", "e">>),
     Str(<<"x", " ", "t", "y", "p", "e">>),
     Str(<<"A", "2", "6", "0", "n", "m">>),
     Str(<<"a", "2", "6", "0">>),
     Str(<<"c", "o", "n", "c">>),
     Str(<<"n", "o", "t", "e", "s">>)}

\* The canonical field names as headers, in the order map_columns lists them.
CanonicalColumns ==
    <<Str(<<"s", "a", "m", "p", "l", "e", "_", "i", "d">>),
      Str(<<"a", "2", "6", "0">>),
      Str(<<"a", "2", "8", "0">>),
      Str(<<"a", "2", "3", "0">>),
      Str(<<"n", "u", "c", "l", "e", "i", "c", "_", "a", "c", "i", "d">>),
      Str(<<"s", "a", "m", "p", "l", "e", "_", "t", "y", "p", "e">>),
      Str(<<"f", "a", "c", "t", "o", "r">>)>>

\* Header lists: up to MaxHeaders headers of the pool, the canonical names in
\* each rotation of their order, and the headers of the tables above.
ColumnLists ==
    SeqsUpTo(HeaderPool, MaxHeaders)
    \cup {[i \in 1..Len(CanonicalColumns) |->
              CanonicalColumns[((i + k - 1) % Len(CanonicalColumns)) + 1]] :
            k \in 0..(Len(CanonicalColumns) - 1)}
    \cup {BasicColumns, FullColumns}

\* Scalar tokens for safe_float and safe_ratio: None, NaN, numbers, and every
\* str of up to MaxTokenLen characters of a small alphabet.
Tokens ==
    {None, NaN, Zero, Num(3, 2), Num(-1, 10)}
    \cup {Str(t) : t \in SeqsUpTo({" ", "1", ".", "-", "a"}, MaxTokenLen)}

NoResult == [exc |-> "pending"]

Init ==
    /\ pc = "ready"
    /\ res = NoResult
    /\ \/ /\ op = "calculate_ratios"
          /\ args \in [a260 : AbsVals, a280 : AbsVals \cup {None}, ratio_260_230 : RatioArgs]
       \/ /\ op = "calculate_dilution"
          /\ args \in [concentration : ConcVals, target_conc : TargetVals, final_vol : FinalVals]
       \/ /\ op = "assess_purity"
          /\ args \in [r260_280 : RatioVals, r260_230 : RatioVals, sample_type : SampleTypes]
       \/ /\ op \in {"process_single_sample", "single_sample.process_single_sample"}
          /\ args \in [inputs : SingleInputs, protocol_settings : SingleProtocols]
       \/ /\ op = "map_columns"
          /\ args \in [columns : ColumnLists]
       \/ /\ op \in {"safe_float", "safe_ratio"}
          /\ args \in [x : Tokens]
       \/ /\ op = "process_dataframe"
          /\ \E t \in Tables, p \in ProtocolSettings :
                args = [df |-> t.df, detected_map |-> t.detected_map,
                        protocol_settings |-> p, default_factor |-> DEFAULT_FACTOR]

CalculateRatios ==
    /\ pc = "ready"
    /\ op = "calculate_ratios"
    /\ res' = calculate_ratios(args.a260, args.a280, args.ratio_260_230)
    /\ pc' = "done"
    /\ UNCHANGED <<op, args>>

CalculateDilution ==
    /\ pc = "ready"
    /\ op = "calculate_dilution"
    /\ res' = calculate_dilution(args.concentration, args.target_conc, args.final_vol)
    /\ pc' = "done"
    /\ UNCHANGED <<op, args>>

AssessPurity ==
    /\ pc = "ready"
    /\ op = "assess_purity"
    /\ res' = assess_purity(args.r260_280, args.r260_230, args.sample_type)
    /\ pc' = "done"
    /\ UNCHANGED <<op, args>>

ProcessSingleSample ==
    /\ pc = "ready"
    /\ op = "process_single_sample"
    /\ res' = process_single_sample(args.inputs, args.protocol_settings)
    /\ pc' = "done"
    /\ UNCHANGED <<op, args>>

SingleSampleProcessSingleSample ==
    /\ pc = "ready"
    /\ op = "single_sample.process_single_sample"
    /\ res' = single_sample_process_single_sample(args.inputs, args.protocol_settings)
    /\ pc' = "done"
    /\ UNCHANGED <<op, args>>

ProcessDataframe ==
    /\ pc = "ready"
    /\ op = "process_dataframe"
    /\ res' = process_dataframe(args.df, args.detected_map, args.protocol_settings,
                                args.default_factor)
    /\ pc' = "done"
    /\ UNCHANGED <<op, args>>

MapColumns ==
    /\ pc = "ready"
    /\ op = "map_columns"
    /\ res' = map_columns(args.columns)
    /\ pc' = "done"
    /\ UNCHANGED <<op, args>>

SafeFloat ==
    /\ pc = "ready"
    /\ op = "safe_float"
    /\ res' = safe_float(args.x)
    /\ pc' = "done"
    /\ UNCHANGED <<op, args>>

SafeRatio ==
    /\ pc = "ready"
    /\ op = "safe_ratio"
    /\ res' = safe_ratio(args.x)
    /\ pc' = "done"
    /\ UNCHANGED <<op, args>>

Next ==
    \/ CalculateRatios
    \/ CalculateDilution
    \/ AssessPurity
    \/ ProcessSingleSample
    \/ SingleSampleProcessSingleSample
    \/ ProcessDataframe
    \/ MapColumns
    \/ SafeFloat
    \/ SafeRatio

Spec == Init /\ [][Next]_vars

(***************************************************************************)
(* Claims.                                                                 *)
(***************************************************************************)
Done(o) == pc = "done" /\ op = o

Range(f) == {f[i] : i \in DOMAIN f}

Hundredth == Num(1, 100)

AbsDiff(a, b) == IF Lt(a, b) THEN Sub(b, a) ELSE Sub(a, b)

ValidDilutionArgs ==
    /\ Le(Zero, args.target_conc)
    /\ Gt(args.final_vol, Zero)
    /\ Gt(args.concentration, Zero)

\* C2: for valid target_conc >= 0, final_vol > 0 and concentration > 0 the two
\* rounded volumes calculate_dilution returns are numbers whose sum is final_vol
\* to within the 2-decimal rounding (0.01), also when volume_sample exceeds
\* final_vol.
C2_VolumesSumToFinalVol ==
    (Done("calculate_dilution") /\ ValidDilutionArgs)
        => /\ IsNum(res.v1)
           /\ IsNum(res.v2)
           /\ Le(AbsDiff(Add(res.v1, res.v2), args.final_vol), Hundredth)

\* C2 witness: a valid call whose sample volume exceeds final_vol and was
\* changed by the rounding.
C2_Witness ==
    /\ Done("calculate_dilution")
    /\ ValidDilutionArgs
    /\ Gt(res.v1, args.final_vol)
    /\ ~Eq(Mul(res.v1, args.concentration), Mul(args.target_conc, args.final_vol))
    /\ Lt(res.v2, Zero)

\* C3: whenever the concentration passed to calculate_dilution is NaN, zero or
\* negative, both returned volumes are invalid and the note is non-empty
\* (stated for valid settings: target_conc >= 0 and final_vol > 0).
C3_NoVolumeFromNonPositiveConcentration ==
    (/\ Done("calculate_dilution")
     /\ Le(Zero, args.target_conc)
     /\ Gt(args.final_vol, Zero)
     /\ (isnan(args.concentration) \/ Le(args.concentration, Zero)))
        => /\ isnan(res.v1)
           /\ isnan(res.v2)
           /\ res.note # ""

\* The cell of input row i under the column the map gives for a field; NaN
\* when the table has no such column.
InputCell(i, field) ==
    LET h == Get(args.detected_map, field, None)
    IN IF InSeq(h, args.df.columns)
       THEN args.df.rows[i][CHOOSE j \in 1..Len(args.df.columns) : args.df.columns[j] = h]
       ELSE NaN

\* The cell of output row i under a header.
OutputCell(i, h) ==
    res.df.rows[i][CHOOSE j \in 1..Len(res.df.columns) : res.df.columns[j] = h]

Returned(o) == Done(o) /\ res.exc = ""

OutputRows == IF Returned("process_dataframe") THEN 1..Len(res.df.rows) ELSE {}

\* The concentration the contract gives row i, before any rounding.
ContractConcentration(i) ==
    LET device == safe_float(InputCell(i, "nucleic_acid")).v
        a260 == safe_float(InputCell(i, "a260")).v
        factor == safe_float(InputCell(i, "factor")).v
    IN IF IsNum(device) THEN device
       ELSE IF IsNum(a260) THEN Mul(a260, IF IsNum(factor) THEN factor ELSE args.default_factor)
       ELSE NaN

\* C1 as stated: in every row process_dataframe returns, the reported
\* concentration is exactly the device value when that cell is numeric,
\* otherwise a260 * factor (the row's factor, or default_factor) when a260 is
\* valid, otherwise invalid.
C1_ConcentrationExact ==
    \A i \in OutputRows : OutputCell(i, COL_CONC) = ContractConcentration(i)

\* C1 amended: the reported concentration is that value rounded to 2 decimals.
C1_ConcentrationRounded ==
    \A i \in OutputRows : OutputCell(i, COL_CONC) = round2(ContractConcentration(i))

\* C1 witness: a returned row with a numeric device value of more than 2
\* decimals and a valid a260, reported as the rounded device value.
C1_Witness ==
    \E i \in OutputRows :
        /\ IsNum(safe_float(InputCell(i, "nucleic_acid")).v)
        /\ IsNum(safe_float(InputCell(i, "a260")).v)
        /\ OutputCell(i, COL_CONC) # safe_float(InputCell(i, "nucleic_acid")).v
        /\ OutputCell(i, COL_CONC) = round2(safe_float(InputCell(i, "nucleic_acid")).v)

\* The effective settings of a single-sample request.
EffectiveFinalVol ==
    IF HasKey(args.inputs, "final_vol") THEN Lookup(args.inputs, "final_vol")
    ELSE args.protocol_settings.final_vol

EffectiveTargetConc ==
    IF HasKey(args.inputs, "target_conc") THEN Lookup(args.inputs, "target_conc")
    ELSE args.protocol_settings.target_conc

SingleSampleDone ==
    Done("process_single_sample") \/ Done("single_sample.process_single_sample")

\* C4: process_single_sample (both implementations) rejects every request
\* whose effective final_vol is <= 0 or whose effective target_conc is < 0: it
\* returns a record that holds the rejection message and nothing else.
C4_InvalidSettingsRejected ==
    (SingleSampleDone /\ (Le(EffectiveFinalVol, Zero) \/ Lt(EffectiveTargetConc, Zero)))
        => /\ res.exc = ""
           /\ res.ret.keys = <<"Notes">>
           /\ res.ret.vals[1] \in {<<NOTE_FINAL_VOL>>, <<NOTE_TARGET_CONC>>}

\* C4 witness: a request with final_vol = 0 whose readings are all valid,
\* rejected by app.py's process_single_sample.
C4_Witness ==
    /\ Done("process_single_sample")
    /\ Eq(EffectiveFinalVol, Zero)
    /\ Le(Zero, EffectiveTargetConc)
    /\ IsNum(Get(args.inputs, "a260", None))
    /\ Gt(Get(args.inputs, "a280", None), Zero)
    /\ res.ret.keys = <<"Notes">>
    /\ res.ret.vals[1] = <<NOTE_FINAL_VOL>>

ValidRatioArgs == IsNum(args.a260) /\ IsNum(args.a280) /\ ~Eq(args.a280, Zero)

\* C5 as stated: ratio_260_280 = a260 / a280 when both are valid and a280 # 0;
\* in every other case it is invalid and the note "A280 missing or zero" is
\* emitted (stated for an a280 that is a float: a number or NaN).
C5_Ratio280OrNote ==
    (Done("calculate_ratios") /\ ~IsNone(args.a280))
        => /\ res.exc = ""
           /\ IF ValidRatioArgs THEN res.r260_280 = Div(args.a260, args.a280)
              ELSE isnan(res.r260_280) /\ NOTE_A280 \in Range(res.note)

\* C5 amended: ratio_260_280 = a260 / a280 when both are valid and a280 # 0 and
\* is invalid in every other case; the note "A280 missing or zero" is emitted
\* exactly when a280 is NaN or zero (not when only a260 is invalid, and not
\* when a280 is None, which gives the note "Error computing 260/280").
C5_Ratio280AndNote ==
    Done("calculate_ratios")
        => /\ res.exc = ""
           /\ IF ValidRatioArgs THEN res.r260_280 = Div(args.a260, args.a280)
              ELSE isnan(res.r260_280)
           /\ NOTE_A280 \in Range(res.note) <=> (isnan(args.a280) \/ Eq(args.a280, Zero))
           /\ NOTE_ERR_280 \in Range(res.note) <=> IsNone(args.a280)

\* C5 witness: a260 invalid with a valid nonzero a280: the ratio is invalid and
\* no A280 note is emitted.
C5_Witness ==
    /\ Done("calculate_ratios")
    /\ isnan(args.a260)
    /\ Gt(args.a280, Zero)
    /\ isnan(res.r260_280)
    /\ NOTE_A280 \notin Range(res.note)

\* C6: in a returned row with no valid 260/230 ratio but a valid, nonzero a230
\* reading and a valid a260, ratio_260_230 is a260 / a230 (to 2 decimals), not
\* the 0.5-divisor fallback.
C6_A230Used ==
    \A i \in OutputRows :
        LET ratio == safe_ratio(InputCell(i, "ratio_260_230")).v
            a230 == safe_float(InputCell(i, "a230")).v
            a260 == safe_float(InputCell(i, "a260")).v
        IN (~IsNum(ratio) /\ IsNum(a230) /\ ~Eq(a230, Zero) /\ IsNum(a260))
              => OutputCell(i, COL_260_230) = round2(Div(a260, a230))

\* C7: a supplied valid 260/230 ratio is returned verbatim without the
\* estimation note, whatever a260 and a280 are; without one, ratio_260_230 is
\* a260 / 0.5 for a valid a260 and invalid for an invalid one; the estimation
\* note is present exactly when the supplied ratio is absent or invalid.
C7_Ratio230VerbatimOrFallback ==
    Done("calculate_ratios")
        => /\ res.exc = ""
           /\ IF IsNum(args.ratio_260_230)
              THEN res.r260_230 = args.ratio_260_230
              ELSE IF IsNum(args.a260)
              THEN res.r260_230 = Add(args.a260, args.a260)
              ELSE isnan(res.r260_230)
           /\ NOTE_230_DEFAULT \in Range(res.note) <=> ~IsNum(args.ratio_260_230)

\* C7 witness: no ratio supplied, a valid a260 and an invalid a280: the
\* fallback a260 / 0.5 with the estimation note.
C7_Witness ==
    /\ Done("calculate_ratios")
    /\ IsNone(args.ratio_260_230)
    /\ Gt(args.a260, Zero)
    /\ isnan(args.a280)
    /\ res.r260_230 = Add(args.a260, args.a260)
    /\ NOTE_230_DEFAULT \in Range(res.note)

\* The rules' own entries for the call (before any default message).
RuleEntries ==
    purity_rules(args.r260_280, args.r260_230, lower(strip(or_empty(args.sample_type).s)))

\* C8: assess_purity returns OK iff the rules of the type produced no entry;
\* then the text is exactly the canned "within acceptable bounds" message;
\* otherwise the verdict is WARNING and the canned message is absent.
C8_VerdictIffNoEntry ==
    Done("assess_purity")
        => /\ res.exc = ""
           /\ res.verdict = VERDICT_OK <=> RuleEntries = <<>>
           /\ RuleEntries = <<>> => res.text = <<REC_WITHIN_BOUNDS>>
           /\ RuleEntries # <<>>
                 => /\ res.verdict = VERDICT_WARNING
                    /\ REC_WITHIN_BOUNDS \notin Range(res.text)
                    /\ \A i \in 1..Len(RuleEntries) : RuleEntries[i] \in Range(res.text)

\* C8 witness: a call whose rules produce two entries, with verdict WARNING.
C8_Witness ==
    /\ Done("assess_purity")
    /\ Len(RuleEntries) = 2
    /\ res.verdict = VERDICT_WARNING
    /\ Len(res.text) = 3

DnaTypes == {Str(<<"D", "N", "A">>), Str(<<"d", "n", "a">>), Str(<<" ", "D", "n", "a", " ">>)}

RnaTypes == {Str(<<"R", "N", "A">>), Str(<<"r", "N", "a", " ">>)}

Warned == res.verdict = VERDICT_WARNING /\ REC_WITHIN_BOUNDS \notin Range(res.text)

Passed == res.verdict = VERDICT_OK /\ res.text = <<REC_WITHIN_BOUNDS>>

\* C9: for sample type DNA, in any case and with surrounding blanks,
\* assess_purity warns exactly when ratio_260_280 < 1.7 or ratio_260_230 < 1.8
\* or either ratio is invalid; with both valid and at or above 1.7 and 1.8 the
\* verdict is OK.
C9_DnaThresholds ==
    (Done("assess_purity") /\ args.sample_type \in DnaTypes)
        => /\ Warned <=> \/ Lt(args.r260_280, Num(17, 10))
                         \/ Lt(args.r260_230, Num(18, 10))
                         \/ isnan(args.r260_280)
                         \/ isnan(args.r260_230)
           /\ (Le(Num(17, 10), args.r260_280) /\ Le(Num(18, 10), args.r260_230)) => Passed

\* C9 witness: " Dna " with both ratios exactly on their thresholds: OK.
C9_Witness ==
    /\ Done("assess_purity")
    /\ args.sample_type = Str(<<" ", "D", "n", "a", " ">>)
    /\ args.r260_280 = Num(17, 10)
    /\ args.r260_230 = Num(18, 10)
    /\ Passed

\* C10: for sample type RNA assess_purity warns if ratio_260_280 < 1.9 and
\* warns if ratio_260_230 < 1.8, both strictly: valid ratios at or above 1.9
\* and 1.8, the boundaries included, give no entry and verdict OK.
C10_RnaThresholds ==
    (Done("assess_purity") /\ args.sample_type \in RnaTypes)
        => /\ Lt(args.r260_280, Num(19, 10)) => Warned
           /\ Lt(args.r260_230, Num(18, 10)) => Warned
           /\ (Le(Num(19, 10), args.r260_280) /\ Le(Num(18, 10), args.r260_230)) => Passed

\* C10 witness: RNA with ratio_260_280 = 1.9 and ratio_260_230 = 1.8: OK.
C10_Witness ==
    /\ Done("assess_purity")
    /\ args.sample_type \in RnaTypes
    /\ args.r260_280 = Num(19, 10)
    /\ args.r260_230 = Num(18, 10)
    /\ Passed

ProteinTypes == {Str(<<"P", "r", "o", "t", "e", "i", "n">>), Str(<<"p", "r", "o", "t">>)}

\* C11: for sample type Protein the result of assess_purity does not depend
\* on ratio_260_230: the call made returns what the call with any other
\* ratio_260_230, valid or invalid, returns, and the verdict is WARNING exactly
\* when ratio_260_280 is valid and > 1.2.
C11_ProteinIgnores230 ==
    (Done("assess_purity") /\ args.sample_type \in ProteinTypes)
        => /\ res.exc = ""
           /\ \A other \in RatioVals :
                 assess_purity(args.r260_280, other, args.sample_type) = res
           /\ Warned <=> (IsNum(args.r260_280) /\ Gt(args.r260_280, Num(12, 10)))
           /\ ~Warned => Passed

\* C11 witness: a protein call with a low ratio_260_230 (below 1.8) and a
\* ratio_260_280 of at most 1.2: the verdict is OK.
C11_Witness ==
    /\ Done("assess_purity")
    /\ args.sample_type \in ProteinTypes
    /\ Lt(args.r260_230, Num(18, 10))
    /\ Le(args.r260_280, Num(12, 10))
    /\ Passed

\* C12: for a table whose headers are exactly the canonical field names, in
\* any column order, map_columns maps each canonical field to the header of
\* the same name.
C12_CanonicalIdentity ==
    (/\ Done("map_columns")
     /\ Len(args.columns) = Len(CanonicalColumns)
     /\ Range(args.columns) = Range(CanonicalColumns))
        => \A f \in 1..Len(CanonicalColumns) :
              /\ res.keys[f] = mapping_variants[f].canon
              /\ res.vals[f] = CanonicalColumns[f]

\* The derived columns in the order of the contract.
DerivedColumns ==
    <<COL_CONC, COL_260_280, COL_260_230, COL_PURITY, COL_PURITY_NOTES,
      COL_VOLUME_SAMPLE, COL_VOLUME_DILUENT, COL_NOTES>>

\* C13: the table process_dataframe returns for a table of at least one row
\* holds every input column, unchanged in value and position, followed by the
\* derived columns in the order concentration, ratio_260_280, ratio_260_230,
\* purity verdict, purity rationale, volume_sample, volume_diluent, notes.
C13_OriginalThenDerivedColumns ==
    (Returned("process_dataframe") /\ args.df.rows # <<>>)
        => /\ res.df.columns = args.df.columns \o DerivedColumns
           /\ \A i \in OutputRows : \A j \in 1..Len(args.df.columns) :
                 res.df.rows[i][j] = args.df.rows[i][j]

\* C14: for every input table, whatever cells are missing, blank or not
\* parseable (a blank sample-type cell included), process_dataframe returns,
\* with as many rows as the input has, output row i holding the cells of
\* input row i.
C14_BatchNeverAborts ==
    Done("process_dataframe")
        => /\ res.exc = ""
           /\ Len(res.df.rows) = Len(args.df.rows)
           /\ \A i \in 1..Len(args.df.rows) : OutputCell(i, H_ID) = InputCell(i, "sample_id")

\* A blank or absent token: None, NaN or the empty string.
Blank(x) == IsNone(x) \/ isnan(x) \/ x = Str(<<>>)

\* C15: safe_float and safe_ratio give an invalid value with status "missing"
\* for a blank or absent token (None, NaN, empty string), an invalid value
\* with status "non-numeric" for a token that fails numeric parsing, and the
\* numeric value with the ok status for a token that parses.
C15_TokenStatus ==
    (Done("safe_float") \/ Done("safe_ratio"))
        => IF Blank(args.x) THEN isnan(res.v) /\ res.note = "missing"
           ELSE IF IsNum(args.x) THEN res.v = args.x /\ res.note = ""
           ELSE IF ParseFloat(args.x.s).ok
           THEN res.v = ParseFloat(args.x.s).v /\ res.note = ""
           ELSE isnan(res.v) /\ res.note = "non-numeric"

\* v1 = target_conc * final_vol / concentration, before rounding.
ComputedV1 == Div(Mul(args.target_conc, args.final_vol), args.concentration)

\* C16: for a concentration calculate_dilution divides by (neither NaN nor
\* zero), v1 is reported as computed, rounded to 2 decimals and not clamped,
\* v2 is final_vol - v1 rounded to 2 decimals, and the "too dilute" note is
\* returned exactly when v1 > final_vol; then the reported v1 is not below
\* final_vol and the reported v2 is not above zero.
C16_TooDiluteReportedAsComputed ==
    Done("calculate_dilution")
        => IF isnan(args.concentration) \/ Eq(args.concentration, Zero)
           THEN res.note # NOTE_TOO_DILUTE
           ELSE /\ res.v1 = round2(ComputedV1)
                /\ res.v2 = round2(Sub(args.final_vol, ComputedV1))
                /\ res.note = NOTE_TOO_DILUTE <=> Gt(ComputedV1, args.final_vol)
                /\ Gt(ComputedV1, args.final_vol)
                      => Le(args.final_vol, res.v1) /\ Le(res.v2, Zero)

\* C16 witness: valid settings and a positive concentration too low for the
\* target: v1 above final_vol, v2 negative, the note returned.
C16_Witness ==
    /\ Done("calculate_dilution")
    /\ ValidDilutionArgs
    /\ Gt(res.v1, args.final_vol)
    /\ Lt(res.v2, Zero)
    /\ res.note = NOTE_TOO_DILUTE

\* Protocol settings the contract rejects.
InvalidSettings(target_conc, final_vol) == Le(final_vol, Zero) \/ Lt(target_conc, Zero)

\* C17: the batch path computes no volume from invalid protocol settings:
\* with final_vol <= 0 or target_conc < 0, calculate_dilution returns no
\* numeric volume (stated for a concentration > 0) and no row process_dataframe
\* returns holds one.
C17_BatchRejectsInvalidSettings ==
    /\ (/\ Done("calculate_dilution")
        /\ Gt(args.concentration, Zero)
        /\ InvalidSettings(args.target_conc, args.final_vol))
          => isnan(res.v1) /\ isnan(res.v2)
    /\ (/\ Returned("process_dataframe")
        /\ InvalidSettings(args.protocol_settings.target_conc, args.protocol_settings.final_vol))
          => \A i \in OutputRows :
                /\ isnan(OutputCell(i, COL_VOLUME_SAMPLE))
                /\ isnan(OutputCell(i, COL_VOLUME_DILUENT))

Fields == 1..Len(mapping_variants)

\* The positions of the headers that, lower-cased, are a variant of field f.
ExactHeaders(f) ==
    {i \in 1..Len(args.columns) : lower(args.columns[i].s) \in Range(mapping_variants[f].variants)}

\* The positions of the headers that, lower-cased, contain a variant of field f.
ContainsHeaders(f) ==
    {i \in 1..Len(args.columns) :
        \E v \in Range(mapping_variants[f].variants) : Contains(v, lower(args.columns[i].s))}

\* C18: for each canonical field map_columns prefers an exact case-insensitive
\* match: if a header equals a variant of the field, the field maps to such a
\* header, also when an earlier header contains a variant; otherwise, if a
\* header contains a variant, the field maps to such a header; otherwise to
\* None.
C18_ExactBeforeContains ==
    Done("map_columns")
        => \A f \in Fields :
              IF ExactHeaders(f) # {}
              THEN res.vals[f] \in {args.columns[i] : i \in ExactHeaders(f)}
              ELSE IF ContainsHeaders(f) # {}
              THEN res.vals[f] \in {args.columns[i] : i \in ContainsHeaders(f)}
              ELSE res.vals[f] = None

\* C18 witness: a header that only contains a variant of a field comes before
\* a header that equals one, and the field maps to the latter.
C18_Witness ==
    /\ Done("map_columns")
    /\ \E f \in Fields : \E i \in ContainsHeaders(f) \ ExactHeaders(f) : \E j \in ExactHeaders(f) :
          /\ i < j
          /\ res.vals[f] = args.columns[j]
          /\ res.vals[f] # args.columns[i]

\* C19: when several headers match a canonical field at the same stage of
\* map_columns (several exact matches, several contains matches, or headers
\* that differ only in letter case), the field maps to the matching header
\* that comes first in column order.
C19_FirstMatchInColumnOrder ==
    Done("map_columns")
        => \A f \in Fields :
              /\ ExactHeaders(f) # {} => res.vals[f] = args.columns[First(ExactHeaders(f))]
              /\ (ExactHeaders(f) = {} /\ ContainsHeaders(f) # {})
                    => res.vals[f] = args.columns[First(ContainsHeaders(f))]

\* The entries the 260/280 rules and the 260/230 rules produce.
Entries280 ==
    {REC_NO_280, REC_DNA_280_LOW, REC_RNA_280_LOW, REC_PROTEIN_280_HIGH, REC_OTHER_280_LOW}

Entries230 == {REC_NO_230, REC_DNA_230_LOW, REC_RNA_230_LOW, REC_OTHER_230_LOW}

\* C20: for every sample type and pair of ratios, when the 260/280 rule and
\* the 260/230 rule both produce an entry, the text assess_purity returns is
\* the 260/280 entry, the separator, the 260/230 entry; no 260/230 entry ever
\* comes before a 260/280 entry.
C20_Entry280Before230 ==
    (Done("assess_purity") /\ res.exc = "")
        => /\ Len(RuleEntries) = 2
                 => /\ Len(res.text) = 3
                    /\ res.text[1] \in Entries280
                    /\ res.text[2] = REC_SEPARATOR
                    /\ res.text[3] \in Entries230
           /\ \A i, j \in 1..Len(res.text) :
                 (res.text[i] \in Entries230 /\ res.text[j] \in Entries280) => j < i

\* C20 witness: a DNA call with an invalid ratio_260_280 and a low
\* ratio_260_230: both entries, in that order.
C20_Witness ==
    /\ Done("assess_purity")
    /\ args.sample_type \in DnaTypes
    /\ isnan(args.r260_280)
    /\ Lt(args.r260_230, Num(18, 10))
    /\ res.text = <<REC_NO_280, REC_SEPARATOR, REC_DNA_230_LOW>>

\* Sample types that are empty or not recognized.
OtherTypes ==
    {None, Str(<<>>), Str(<<" ">>), Str(<<"D", "N", "A", "x">>), Str(<<"x">>)}

\* C21: for an unrecognized or empty sample type assess_purity warns exactly
\* when ratio_260_280 is valid and < 1.7 or ratio_260_230 is valid and < 1.8;
\* a sample of unrecognized type or Protein whose ratios are both invalid gets
\* verdict OK with the "within acceptable bounds" message.
C21_OtherTypeThresholds ==
    Done("assess_purity")
        => /\ args.sample_type \in OtherTypes
                 => /\ res.exc = ""
                    /\ Warned <=> \/ IsNum(args.r260_280) /\ Lt(args.r260_280, Num(17, 10))
                                  \/ IsNum(args.r260_230) /\ Lt(args.r260_230, Num(18, 10))
                    /\ ~Warned => Passed
           /\ (/\ args.sample_type \in OtherTypes \cup ProteinTypes
               /\ isnan(args.r260_280)
               /\ isnan(args.r260_230))
                 => Passed

\* C21 witness: an unrecognized type with both ratios invalid: verdict OK.
C21_Witness ==
    /\ Done("assess_purity")
    /\ args.sample_type = Str(<<"x">>)
    /\ isnan(args.r260_280)
    /\ isnan(args.r260_230)
    /\ Passed

\* An optional input that is absent from the request or left blank (a blank
\* field reaches process_single_sample as NaN, app.py lines 437-449).
AbsentOrBlank(key) == ~HasKey(args.inputs, key) \/ isnan(Lookup(args.inputs, key))

ValidProtocol ==
    /\ Gt(args.protocol_settings.final_vol, Zero)
    /\ Le(Zero, args.protocol_settings.target_conc)

\* C22: in the single-sample path an optional input that is absent or blank
\* falls back to its default: factor to 50.0, target_conc and final_vol to
\* the protocol's values, so a valid a260 with these three absent or blank
\* gives the concentration a260 * 50, the protocol's settings and numeric
\* volumes.
C22_BlankOptionalsDefaulted ==
    (/\ Done("process_single_sample")
     /\ ValidProtocol
     /\ IsNum(Get(args.inputs, "a260", None))
     /\ Gt(Get(args.inputs, "a260", None), Zero)
     /\ AbsentOrBlank("factor")
     /\ AbsentOrBlank("target_conc")
     /\ AbsentOrBlank("final_vol"))
        => /\ res.exc = ""
           /\ Lookup(res.ret, "Concentration_ng_per_ul")
                 = round2(Mul(Lookup(args.inputs, "a260"), DEFAULT_FACTOR))
           /\ Lookup(res.ret, "Protocol_target_ng_per_ul") = args.protocol_settings.target_conc
           /\ Lookup(res.ret, "Protocol_final_vol_ul") = args.protocol_settings.final_vol
           /\ IsNum(Lookup(res.ret, "Volume Sample (ul)"))
           /\ IsNum(Lookup(res.ret, "Volume Diluent (ul)"))

\* A single-sample request that passes validation, for a DNA sample with
\* valid a260 and a280 and no valid 260/230 ratio supplied.
DnaWithoutRatio ==
    /\ Done("process_single_sample")
    /\ ~InvalidSettings(EffectiveTargetConc, EffectiveFinalVol)
    /\ Get(args.inputs, "sample_type", DEFAULT_SAMPLE_TYPE) \in DnaTypes
    /\ IsNum(Get(args.inputs, "a260", None))
    /\ IsNum(Get(args.inputs, "a280", None))
    /\ ~Eq(Get(args.inputs, "a280", None), Zero)
    /\ ~IsNum(Get(args.inputs, "ratio_260_230", None))

\* C23: for a DNA sample with valid a260 and a280 and no supplied 260/230
\* ratio the fallback ratio is 2 * a260 (reported to 2 decimals), so the
\* 260/230 rule fires exactly when a260 < 0.9; for a260 = 0.12, a280 = 0.07
\* and factor 50 the concentration is 6.0, ratio_260_280 is 1.71 and passes
\* the 1.7 threshold, ratio_260_230 is 0.24 and the verdict is WARNING.
C23_DnaFallbackRatio ==
    DnaWithoutRatio
        => /\ res.exc = ""
           /\ Lookup(res.ret, "260/230")
                 = round2(Add(Lookup(args.inputs, "a260"), Lookup(args.inputs, "a260")))
           /\ REC_DNA_230_LOW \in Range(Lookup(res.ret, "Purity_notes"))
                 <=> Lt(Lookup(args.inputs, "a260"), Num(9, 10))
           /\ (/\ Lookup(args.inputs, "a260") = Num(12, 100)
               /\ Lookup(args.inputs, "a280") = Num(7, 100)
               /\ ~HasKey(args.inputs, "factor"))
                 => /\ Lookup(res.ret, "Concentration_ng_per_ul") = Num(6, 1)
                    /\ Lookup(res.ret, "260/280") = Num(171, 100)
                    /\ REC_DNA_280_LOW \notin Range(Lookup(res.ret, "Purity_notes"))
                    /\ Lookup(res.ret, "260/230") = Num(24, 100)
                    /\ Lookup(res.ret, "Purity") = VERDICT_WARNING

\* C23 witness: the request a260 = 0.12, a280 = 0.07, factor 50 by default,
\* with verdict WARNING from the 260/230 rule alone.
C23_Witness ==
    /\ DnaWithoutRatio
    /\ Lookup(args.inputs, "a260") = Num(12, 100)
    /\ Lookup(args.inputs, "a280") = Num(7, 100)
    /\ ~HasKey(args.inputs, "factor")
    /\ Lookup(res.ret, "Concentration_ng_per_ul") = Num(6, 1)
    /\ Lookup(res.ret, "Purity") = VERDICT_WARNING
    /\ Lookup(res.ret, "Purity_notes") = <<REC_DNA_230_LOW>>

\* A reading of the request that is numeric or the NaN value coercion gives.
Coerced(key) == HasKey(args.inputs, key) /\ ~IsNone(Lookup(args.inputs, key))

\* The keys of a complete result of process_single_sample.
CompleteKeys ==
    <<"Concentration_ng_per_ul", "260/280", "260/230", "Purity", "Purity_notes",
      "Volume Sample (ul)", "Volume Diluent (ul)",
      "Protocol_target_ng_per_ul", "Protocol_final_vol_ul", "Notes">>

\* C24: for every single-sample request with valid settings whose a260, a280,
\* 260/230 ratio and factor are each numeric or NaN, process_single_sample
\* returns a complete result and does not raise, in app.py and in
\* single_sample.py alike, and the two return the same result.
C24_BothImplementationsComplete ==
    (/\ SingleSampleDone
     /\ Gt(EffectiveFinalVol, Zero)
     /\ Le(Zero, EffectiveTargetConc)
     /\ Coerced("a260")
     /\ Coerced("a280")
     /\ Coerced("ratio_260_230")
     /\ Coerced("factor"))
        => /\ res.exc = ""
           /\ res.ret.keys = CompleteKeys
           /\ Done("single_sample.process_single_sample")
                 => res = process_single_sample(args.inputs, args.protocol_settings)

====
